---- MODULE Spec2Model ----
(***************************************************************************)
(* Model of the Engine viewer of rpe-app (Engine.js, documented in         *)
(* doc-rpe-app) and of the Suspense boundary of App that mounts it.        *)
(*                                                                         *)
(* The state is the viewer's React state (hovered), the values of the Leva *)
(* panel (config), the refs (reset, boxH), the three.js objects the code   *)
(* writes (group position, controls.autoRotate, the scene's helpers) and   *)
(* the JSX tree returned by the last render (the Select groups with their  *)
(* enabled flags and mesh arrays).  Every event handler is one action; the *)
(* re-render React performs after a state change is part of the action.    *)
(***************************************************************************)
EXTENDS Integers, Sequences, FiniteSets, TLC

VARIABLES
    phase,       \* "loading" while useGLTF suspends, "mounted" afterwards
    hovered,     \* useState(null): the hovered part name, or null
    config,      \* the values of the Leva panel (useControls)
    reset,       \* reset.current, the guard of the pivot recentering
    position,    \* group.current.position
    bbox,        \* the bounding box of the loaded assembly, group at the origin
    boxH,        \* boxH.current: whether a BoxHelper exists, and its visible flag
    helpers,     \* number of BoxHelper objects added to the scene
    autoRotate,  \* state.controls.autoRotate
    tree,        \* the JSX returned by the last render
    controls,    \* state.controls: "home" (the saved view) or "moved"
    cameraUp,    \* state.camera.up
    recenterings,\* number of calls of group.current.position.set
    other,       \* a second Engine instance, when one is mounted
    last,        \* history: the last event handled, its argument and status
    pre          \* history: hovered and config before the last event

vars == <<phase, hovered, config, reset, position, bbox, boxH, helpers,
          autoRotate, tree, controls, cameraUp, recenterings, other, last, pre>>

----------------------------------------------------------------------------
(* Values *)

null == "null"

PartNames == <<"gear", "shaft", "cylinder", "piston1", "piston2", "piston3">>

Names == {PartNames[i] : i \in 1..Len(PartNames)}

Keys == Names \cup {"all", "autoRotate"}

Range(s) == {s[i] : i \in 1..Len(s)}

\* Variant of arr: the gear array written as the run 0..11 (meshes 11 and 12
\* belong to the cylinder, mesh 13 to the gear).
arrGearRun(name) ==
    CASE name = "gear"     -> <<0, 1, 2, 3, 4, 5, 6, 7, 8, 9, 10, 11>>
      [] name = "shaft"    -> <<29, 30, 31, 32, 33>>
      [] name = "cylinder" -> <<11, 12, 14, 19, 34, 39, 47, 52>>
      [] name = "piston1"  -> <<15, 16, 17, 18, 20, 21, 22, 23, 24, 25, 26, 27, 28>>
      [] name = "piston2"  -> <<35, 36, 37, 38, 40, 41, 42, 43, 44, 45, 46>>
      [] name = "piston3"  -> <<48, 49, 50, 51, 53, 54, 55, 56, 57, 58, 59>>

\* Variant of arr: mesh 19 left out of the cylinder array.
arrGap(name) ==
    CASE name = "gear"     -> <<0, 1, 2, 3, 4, 5, 6, 7, 8, 9, 10, 13>>
      [] name = "shaft"    -> <<29, 30, 31, 32, 33>>
      [] name = "cylinder" -> <<11, 12, 14, 34, 39, 47, 52>>
      [] name = "piston1"  -> <<15, 16, 17, 18, 20, 21, 22, 23, 24, 25, 26, 27, 28>>
      [] name = "piston2"  -> <<35, 36, 37, 38, 40, 41, 42, 43, 44, 45, 46>>
      [] name = "piston3"  -> <<48, 49, 50, 51, 53, 54, 55, 56, 57, 58, 59>>

\* The arr props of the six Parts elements.
arr(name) ==
    CASE name = "gear"     -> <<0, 1, 2, 3, 4, 5, 6, 7, 8, 9, 10, 13>>
      [] name = "shaft"    -> <<29, 30, 31, 32, 33>>
      [] name = "cylinder" -> <<11, 12, 14, 19, 34, 39, 47, 52>>
      [] name = "piston1"  -> <<15, 16, 17, 18, 20, 21, 22, 23, 24, 25, 26, 27, 28>>
      [] name = "piston2"  -> <<35, 36, 37, 38, 40, 41, 42, 43, 44, 45, 46>>
      [] name = "piston3"  -> <<48, 49, 50, 51, 53, 54, 55, 56, 57, 58, 59>>

\* The schema given to useControls: every flag starts unchecked.
InitialConfig == [k \in Keys |-> FALSE]

Origin == <<0, 0, 0>>

\* The up vector of a new camera, and the one reset writes.
Up == <<0, 1, 0>>

\* useRef(): no BoxHelper yet.
NoHelper == [exists |-> FALSE, visible |-> FALSE]

\* Bounding boxes the loaded asset may have (the asset is not part of the
\* sources); the coordinates are chosen so that the centers are exact.
Boxes ==
    { [min |-> <<-2, -4, 0>>, max |-> <<4, 2, 6>>],
      [min |-> <<-3, -3, -3>>, max |-> <<3, 3, 3>>] }

\* Variant of negate: the vector is not negated.
negateForgotten(v) == v

\* Vector3.negate
negate(v) == <<-v[1], -v[2], -v[3]>>

\* Box3.getCenter: (min + max) * 0.5
getCenter(box) ==
    <<(box.min[1] + box.max[1]) \div 2,
      (box.min[2] + box.max[2]) \div 2,
      (box.min[3] + box.max[3]) \div 2>>

\* Box3.setFromObject(group.current): the world box of the assembly, which
\* moves with the group's position.
setFromObject(box, pos) ==
    [min |-> <<box.min[1] + pos[1], box.min[2] + pos[2], box.min[3] + pos[3]>>,
     max |-> <<box.max[1] + pos[1], box.max[2] + pos[2], box.max[3] + pos[3]>>]

----------------------------------------------------------------------------
(* The panel setter and pton *)

\* set({key: stat}) of useControls
set(cfg, key, stat) == [cfg EXCEPT ![key] = stat]

\* Variant of ptonDefault: a default branch that does nothing.
ptonDefaultNothing(cfg, stat) == cfg

\* Variant of ptonDefault: the branch also sets the select-all flag.
ptonDefaultAlsoAll(cfg, stat) ==
    set(set(set(set(set(set(set(cfg, "gear", stat), "shaft", stat), "cylinder", stat),
        "piston1", stat), "piston2", stat), "piston3", stat), "all", stat)

\* Variant of ptonDefault: the call for piston3 is missing.
ptonDefaultFive(cfg, stat) ==
    set(set(set(set(set(cfg, "gear", stat), "shaft", stat), "cylinder", stat),
        "piston1", stat), "piston2", stat)

\* The default branch of pton: six calls of set.
ptonDefault(cfg, stat) ==
    set(set(set(set(set(set(cfg, "gear", stat), "shaft", stat), "cylinder", stat),
        "piston1", stat), "piston2", stat), "piston3", stat)

\* Variant of pton: the break of case "shaft" is missing, so the case falls
\* through into case "cylinder".
ptonFallThrough(cfg, part, stat) ==
    CASE part = "gear"     -> set(cfg, "gear", stat)
      [] part = "shaft"    -> set(set(cfg, "shaft", stat), "cylinder", stat)
      [] part = "cylinder" -> set(cfg, "cylinder", stat)
      [] part = "piston1"  -> set(cfg, "piston1", stat)
      [] part = "piston2"  -> set(cfg, "piston2", stat)
      [] part = "piston3"  -> set(cfg, "piston3", stat)
      [] OTHER             -> ptonDefault(cfg, stat)

\* Variant of pton: the commented-out line stat = !get(part) is in effect,
\* a recognized part is toggled.
ptonToggle(cfg, part, stat) ==
    IF part \in Names
    THEN set(cfg, part, ~cfg[part])
    ELSE ptonDefault(cfg, stat)

\* Variant of pton: checking a part unchecks the other five.
ptonExclusive(cfg, part, stat) ==
    IF part \in Names
    THEN set(ptonDefault(cfg, FALSE), part, stat)
    ELSE ptonDefault(cfg, stat)

pton(cfg, part, stat) ==
    CASE part = "gear"     -> set(cfg, "gear", stat)
      [] part = "shaft"    -> set(cfg, "shaft", stat)
      [] part = "cylinder" -> set(cfg, "cylinder", stat)
      [] part = "piston1"  -> set(cfg, "piston1", stat)
      [] part = "piston2"  -> set(cfg, "piston2", stat)
      [] part = "piston3"  -> set(cfg, "piston3", stat)
      [] OTHER             -> ptonDefault(cfg, stat)

----------------------------------------------------------------------------
(* Rendering *)

\* Variant of Parts: enabled={config}, the hover forgotten.
PartsConfigOnly(name, cfg, a, hov) ==
    [name |-> name, enabled |-> cfg, meshes |-> a]

\* Variant of Parts: enabled={hovered === name && config}.
PartsHoverAndConfig(name, cfg, a, hov) ==
    [name |-> name, enabled |-> ((hov = name) /\ cfg), meshes |-> a]

\* <Parts name config arr />: a Select group with the part's meshes.
Parts(name, cfg, a, hov) ==
    [name |-> name, enabled |-> ((hov = name) \/ cfg), meshes |-> a]

\* Variant of EngineJSX: the outer Select reads the wrong panel key.
EngineJSXWrongKey(hov, cfg) ==
    [kind     |-> "group",
     enabled  |-> cfg["autoRotate"],
     children |-> [i \in 1..Len(PartNames) |->
                      Parts(PartNames[i], cfg[PartNames[i]], arr(PartNames[i]), hov)]]

\* The JSX the Engine returns: <Select enabled={config.all}> around six Parts.
EngineJSX(hov, cfg) ==
    [kind     |-> "group",
     enabled  |-> cfg["all"],
     children |-> [i \in 1..Len(PartNames) |->
                      Parts(PartNames[i], cfg[PartNames[i]], arr(PartNames[i]), hov)]]

\* <Loading />, the fallback of the Suspense boundary.
Loading == [kind |-> "Loading", enabled |-> FALSE, children |-> <<>>]

\* Variant of RenderBoxH: the else branch, which hides the helper, is missing.
RenderBoxHNeverHidden(cfg, bh) ==
    IF cfg["autoRotate"] THEN [exists |-> TRUE, visible |-> TRUE] ELSE bh

\* The BoxHelper part of the render body.
RenderBoxH(cfg, bh) ==
    IF cfg["autoRotate"]
    THEN [exists |-> TRUE, visible |-> TRUE]
    ELSE IF bh.exists THEN [bh EXCEPT !.visible = FALSE] ELSE bh

\* Variant of RenderHelpers: without the test of boxH.current, a helper is
\* created and added at every render with autoRotate checked.
RenderHelpersNoGuard(cfg, bh, n) ==
    IF cfg["autoRotate"] THEN n + 1 ELSE n

\* state.scene.add(boxH.current), done when the helper is created.
RenderHelpers(cfg, bh, n) ==
    IF cfg["autoRotate"] /\ ~bh.exists THEN n + 1 ELSE n

\* One render of Engine with the given state: the body's side effects and
\* the returned tree.
RenderBody(hov, cfg) ==
    /\ autoRotate' = cfg["autoRotate"]
    /\ boxH' = RenderBoxH(cfg, boxH)
    /\ helpers' = RenderHelpers(cfg, boxH, helpers)
    /\ tree' = EngineJSX(hov, cfg)

\* No second instance.
NoInstance ==
    [mounted |-> FALSE, hovered |-> null, config |-> InitialConfig,
     reset |-> FALSE, tree |-> Loading]

\* Variant of RenderOther: the second instance has a panel store of its own
\* and does not see the first one's values.
RenderOtherOwnStore(o, cfg) == o

\* The render of a second instance when the panel values change: its
\* useControls returns the values of the same panel store, its hovered and
\* its refs are its own.
RenderOther(o, cfg) ==
    IF o.mounted
    THEN [o EXCEPT !.config = cfg, !.tree = EngineJSX(o.hovered, cfg)]
    ELSE o

\* The renders a change of state or of the panel causes.
Render(hov, cfg) ==
    /\ RenderBody(hov, cfg)
    /\ other' = RenderOther(other, cfg)

----------------------------------------------------------------------------
(* What the rendered tree shows *)

\* The mesh numbers mounted in the tree.
Meshes(t) == UNION {Range(t.children[i].meshes) : i \in DOMAIN t.children}

\* The Select groups of the tree that contain mesh m and are enabled: the
\* outer one holds every mesh, a part's group holds the part's meshes.
Highlighted(t, m) ==
    /\ m \in Meshes(t)
    /\ \/ t.enabled
       \/ \E i \in DOMAIN t.children :
             t.children[i].enabled /\ m \in Range(t.children[i].meshes)

\* The Select groups of the tree, the possible parents of a mesh.
Groups(t) == {t.children[i] : i \in DOMAIN t.children}

\* The enabled flag of the Select group named name.
Enabled(t, name) ==
    \E i \in DOMAIN t.children : t.children[i].name = name /\ t.children[i].enabled

Snapshot == [hovered |-> hovered, config |-> config]

----------------------------------------------------------------------------
(* Initial state and events *)

Init ==
    /\ phase = "loading"
    /\ hovered = null
    /\ config = InitialConfig
    /\ reset = FALSE
    /\ position = Origin
    /\ bbox \in Boxes
    /\ boxH = NoHelper
    /\ helpers = 0
    /\ autoRotate = FALSE
    /\ tree = Loading
    /\ controls = "home"
    /\ cameraUp = Up
    /\ recenterings = 0
    /\ other = NoInstance
    /\ last = [op |-> "init", arg |-> null, stat |-> FALSE]
    /\ pre = [hovered |-> null, config |-> InitialConfig]

\* The asset has loaded: the Suspense boundary mounts Engine (first render).
Load ==
    /\ phase = "loading"
    /\ phase' = "mounted"
    /\ Render(hovered, config)
    /\ last' = [op |-> "load", arg |-> null, stat |-> FALSE]
    /\ pre' = Snapshot
    /\ UNCHANGED <<hovered, config, reset, position, bbox, controls, cameraUp,
                   recenterings>>

\* Variant of onDoubleClick: setHover(part) without pton(part).
onDoubleClickHoverOnly(parent) ==
    /\ phase = "mounted"
    /\ parent \in Groups(tree)
    /\ Range(parent.meshes) # {}
    /\ hovered' = parent.name
    /\ config' = config
    /\ last' = [op |-> "doubleClick", arg |-> parent.name, stat |-> TRUE]
    /\ Render(hovered', config')
    /\ pre' = Snapshot
    /\ UNCHANGED <<phase, reset, position, bbox, controls, cameraUp, recenterings>>

\* A double click on a mesh e.object; parent is e.object.parent, the Select
\* group the mesh is mounted in (the handler reads nothing else of the event).
onDoubleClick(parent) ==
    /\ phase = "mounted"
    /\ parent \in Groups(tree)
    /\ Range(parent.meshes) # {}
    /\ LET part == parent.name IN
         /\ hovered' = part
         /\ config' = pton(config, part, TRUE)
         /\ last' = [op |-> "doubleClick", arg |-> part, stat |-> TRUE]
    /\ Render(hovered', config')
    /\ pre' = Snapshot
    /\ UNCHANGED <<phase, reset, position, bbox, controls, cameraUp, recenterings>>

\* Variant of onPointerOut: setHover(null) without pton(null, false).
onPointerOutHoverOnly ==
    /\ phase = "mounted"
    /\ hovered' = null
    /\ config' = config
    /\ last' = [op |-> "pointerOut", arg |-> null, stat |-> FALSE]
    /\ Render(hovered', config')
    /\ pre' = Snapshot
    /\ UNCHANGED <<phase, reset, position, bbox, controls, cameraUp, recenterings>>

\* Variant of onPointerOut: pton(hovered, false), which unchecks the hovered
\* part only.
onPointerOutHoveredPart ==
    /\ phase = "mounted"
    /\ hovered' = null
    /\ config' = pton(config, hovered, FALSE)
    /\ last' = [op |-> "pointerOut", arg |-> null, stat |-> FALSE]
    /\ Render(hovered', config')
    /\ pre' = Snapshot
    /\ UNCHANGED <<phase, reset, position, bbox, controls, cameraUp, recenterings>>

\* Variant of onPointerOut: pton(null, false) without setHover(null).
onPointerOutUncheckOnly ==
    /\ phase = "mounted"
    /\ hovered' = hovered
    /\ config' = pton(config, null, FALSE)
    /\ last' = [op |-> "pointerOut", arg |-> null, stat |-> FALSE]
    /\ Render(hovered', config')
    /\ pre' = Snapshot
    /\ UNCHANGED <<phase, reset, position, bbox, controls, cameraUp, recenterings>>

onPointerOut ==
    /\ phase = "mounted"
    /\ hovered' = null
    /\ config' = pton(config, null, FALSE)
    /\ last' = [op |-> "pointerOut", arg |-> null, stat |-> FALSE]
    /\ Render(hovered', config')
    /\ pre' = Snapshot
    /\ UNCHANGED <<phase, reset, position, bbox, controls, cameraUp, recenterings>>

\* Variant of PanelToggle: the panel is there before the asset has loaded
\* (useControls called before useGLTF).
PanelToggleWhileLoading(key) ==
    /\ config' = set(config, key, ~config[key])
    /\ last' = [op |-> "panel", arg |-> key, stat |-> config'[key]]
    /\ IF phase = "mounted"
       THEN Render(hovered, config')
       ELSE UNCHANGED <<autoRotate, boxH, helpers, tree, other>>
    /\ pre' = Snapshot
    /\ UNCHANGED <<phase, hovered, reset, position, bbox, controls, cameraUp,
                   recenterings>>

\* The user clicks the checkbox key of the panel.
PanelToggle(key) ==
    /\ phase = "mounted"
    /\ config' = set(config, key, ~config[key])
    /\ last' = [op |-> "panel", arg |-> key, stat |-> config'[key]]
    /\ Render(hovered, config')
    /\ pre' = Snapshot
    /\ UNCHANGED <<phase, hovered, reset, position, bbox, controls, cameraUp,
                   recenterings>>

\* Variant of Reset: the test of reset.current is missing.
ResetNoGuard ==
    /\ phase = "mounted"
    /\ position' = negate(getCenter(setFromObject(bbox, position)))
    /\ recenterings' = recenterings + 1
    /\ reset' = TRUE
    /\ controls' = "home"
    /\ cameraUp' = Up
    /\ last' = [op |-> "reset", arg |-> last.op, stat |-> ~reset]
    /\ pre' = Snapshot
    /\ UNCHANGED <<phase, hovered, config, bbox, boxH, helpers, autoRotate, tree,
                   other>>

\* Variant of Reset: reset.current = true is missing.
ResetFlagNeverSet ==
    /\ phase = "mounted"
    /\ IF ~reset
       THEN /\ position' = negate(getCenter(setFromObject(bbox, position)))
            /\ recenterings' = recenterings + 1
            /\ reset' = reset
       ELSE UNCHANGED <<position, recenterings, reset>>
    /\ controls' = "home"
    /\ cameraUp' = Up
    /\ last' = [op |-> "reset", arg |-> last.op, stat |-> ~reset]
    /\ pre' = Snapshot
    /\ UNCHANGED <<phase, hovered, config, bbox, boxH, helpers, autoRotate, tree,
                   other>>

\* Variant of Reset: the callback also calls setHover(null).
ResetClearsHover ==
    /\ phase = "mounted"
    /\ IF ~reset
       THEN /\ position' = negate(getCenter(setFromObject(bbox, position)))
            /\ recenterings' = recenterings + 1
            /\ reset' = TRUE
       ELSE UNCHANGED <<position, recenterings, reset>>
    /\ controls' = "home"
    /\ cameraUp' = Up
    /\ hovered' = null
    /\ RenderBody(hovered', config)
    /\ last' = [op |-> "reset", arg |-> last.op, stat |-> ~reset]
    /\ pre' = Snapshot
    /\ UNCHANGED <<phase, config, bbox, other>>

\* The user clicks the reset button of the panel.  In the history, arg is
\* the event handled before this one and stat tells whether this call
\* recentered the group.
Reset ==
    /\ phase = "mounted"
    /\ IF ~reset
       THEN /\ position' = negate(getCenter(setFromObject(bbox, position)))
            /\ recenterings' = recenterings + 1
            /\ reset' = TRUE
       ELSE UNCHANGED <<position, recenterings, reset>>
    /\ controls' = "home"
    /\ cameraUp' = Up
    /\ last' = [op |-> "reset", arg |-> last.op, stat |-> ~reset]
    /\ pre' = Snapshot
    /\ UNCHANGED <<phase, hovered, config, bbox, boxH, helpers, autoRotate, tree,
                   other>>

Next ==
    \/ Load
    \/ \E parent \in Groups(tree) : onDoubleClick(parent)
    \/ onPointerOut
    \/ \E key \in Keys : PanelToggle(key)
    \/ Reset

Spec == Init /\ [][Next]_vars

----------------------------------------------------------------------------
(* The viewer with the orbit controls of App in use *)

\* The user drags the view (or auto-rotation turns it): the camera leaves
\* the state the controls saved.
Orbit ==
    /\ controls' = "moved"
    /\ last' = [op |-> "orbit", arg |-> null, stat |-> FALSE]
    /\ pre' = Snapshot
    /\ UNCHANGED <<phase, hovered, config, reset, position, bbox, boxH, helpers,
                   autoRotate, tree, cameraUp, recenterings, other>>

NextPivot ==
    \/ Load
    \/ \E parent \in Groups(tree) : onDoubleClick(parent)
    \/ onPointerOut
    \/ Reset
    \/ Orbit

SpecPivot == Init /\ [][NextPivot]_vars

----------------------------------------------------------------------------
(* Two Engine instances mounted side by side *)

\* A second <Engine /> is mounted: its useState and useRef values are new,
\* its useControls registers the same keys in the same panel.
MountOther ==
    /\ phase = "mounted"
    /\ ~other.mounted
    /\ other' = [mounted |-> TRUE, hovered |-> null, config |-> config,
                 reset |-> FALSE, tree |-> EngineJSX(null, config)]
    /\ last' = [op |-> "mountOther", arg |-> null, stat |-> FALSE]
    /\ pre' = Snapshot
    /\ UNCHANGED <<phase, hovered, config, reset, position, bbox, boxH, helpers,
                   autoRotate, tree, controls, cameraUp, recenterings>>

\* onDoubleClick of the second instance.
otherDoubleClick(parent) ==
    /\ other.mounted
    /\ parent \in Groups(other.tree)
    /\ Range(parent.meshes) # {}
    /\ LET part == parent.name IN
         /\ config' = pton(config, part, TRUE)
         /\ other' = [other EXCEPT !.hovered = part, !.config = config',
                                   !.tree = EngineJSX(part, config')]
         /\ last' = [op |-> "otherDoubleClick", arg |-> part, stat |-> TRUE]
    /\ RenderBody(hovered, config')
    /\ pre' = Snapshot
    /\ UNCHANGED <<phase, hovered, reset, position, bbox, controls, cameraUp,
                   recenterings>>

\* onPointerOut of the second instance.
otherPointerOut ==
    /\ other.mounted
    /\ config' = pton(config, null, FALSE)
    /\ other' = [other EXCEPT !.hovered = null, !.config = config',
                              !.tree = EngineJSX(null, config')]
    /\ last' = [op |-> "otherPointerOut", arg |-> null, stat |-> FALSE]
    /\ RenderBody(hovered, config')
    /\ pre' = Snapshot
    /\ UNCHANGED <<phase, hovered, reset, position, bbox, controls, cameraUp,
                   recenterings>>

NextTwo ==
    \/ Load
    \/ MountOther
    \/ \E parent \in Groups(tree) : onDoubleClick(parent)
    \/ onPointerOut
    \/ Reset
    \/ \E parent \in Groups(other.tree) : otherDoubleClick(parent)
    \/ otherPointerOut

SpecTwo == Init /\ [][NextTwo]_vars

----------------------------------------------------------------------------
(* pton applied to any argument, for the claims about the function itself *)

\* A part name that is none of the six.
Unrecognized == "crank"

ptonCall(part, stat) ==
    /\ phase = "mounted"
    /\ config' = pton(config, part, stat)
    /\ last' = [op |-> "pton", arg |-> part, stat |-> stat]
    /\ Render(hovered, config')
    /\ pre' = Snapshot
    /\ UNCHANGED <<phase, hovered, reset, position, bbox, controls, cameraUp,
                   recenterings>>

\* Calls of pton between the pointer events that change hovered.
NextPton ==
    \/ Load
    \/ \E parent \in Groups(tree) : onDoubleClick(parent)
    \/ onPointerOut
    \/ \E part \in Names \cup {null, Unrecognized} : \E stat \in BOOLEAN :
          ptonCall(part, stat)

SpecPton == Init /\ [][NextPton]_vars

-----------------------------------------------------------------------------
(* The viewer driven by its two pointer events alone *)

\* The panel is never touched: after loading, only double clicks and
\* pointer-outs on the group happen.
NextPointer ==
    \/ Load
    \/ \E parent \in Groups(tree) : onDoubleClick(parent)
    \/ onPointerOut

SpecPointer == Init /\ [][NextPointer]_vars

----------------------------------------------------------------------------
(* The documented part table, as the specification states it *)

SixParts == {"gear", "shaft", "cylinder", "piston1", "piston2", "piston3"}

DocIndices(p) ==
    CASE p = "gear"     -> (0..10) \cup {13}
      [] p = "shaft"    -> 29..33
      [] p = "cylinder" -> {11, 12, 14, 19, 34, 39, 47, 52}
      [] p = "piston1"  -> (15..18) \cup (20..28)
      [] p = "piston2"  -> (35..38) \cup (40..46)
      [] p = "piston3"  -> (48..51) \cup (53..59)

AllMeshes == 0..59

Mounted == phase = "mounted"

\* The mesh numbers of the Select groups of the tree named p.
GroupMeshes(p) == UNION {Range(g.meshes) : g \in {h \in Groups(tree) : h.name = p}}

\* The mesh numbers highlighted in the rendered tree.
HighlightedSet == {m \in AllMeshes : Highlighted(tree, m)}

NoneChecked(cfg) == \A p \in SixParts : ~cfg[p]

----------------------------------------------------------------------------
(* Claims *)

\* C1: in every reachable state of the mounted viewer and for each of the
\* six parts p, the enabled flag of p's Select group is on if and only if
\* hovered = p or the checkbox of p is checked.
C1_HighlightIffHoveredOrChecked ==
    Mounted =>
        \A p \in SixParts : Enabled(tree, p) <=> (hovered = p \/ config[p])

\* C1 witness: a part is enabled by hover alone, another by its checkbox
\* alone, and a third is not enabled.
C1_Witness ==
    /\ Mounted
    /\ \E p, q, r \in SixParts :
          /\ hovered = p /\ ~config[p] /\ Enabled(tree, p)
          /\ q # p /\ config[q] /\ Enabled(tree, q)
          /\ r # p /\ ~config[r] /\ ~Enabled(tree, r)

\* C2: whenever the select-all flag is true, every mesh index 0..59 is
\* highlighted, whatever the six checked flags and hovered are.
C2_SelectAllHighlightsEveryMesh ==
    (Mounted /\ config["all"]) => \A m \in AllMeshes : Highlighted(tree, m)

\* C2 witness: select-all is on with nothing hovered and nothing checked,
\* and all 60 meshes are highlighted.
C2_Witness ==
    /\ Mounted /\ config["all"]
    /\ hovered = null /\ NoneChecked(config)
    /\ HighlightedSet = AllMeshes

\* C3 (as stated): a checkbox checked through the panel is still checked
\* after a pointer-out event that follows.
C3_Original ==
    [][\A p \in SixParts :
         (last.op = "panel" /\ last.arg = p /\ config[p] /\ last'.op = "pointerOut")
             => config'[p]]_vars

\* C3 (amended): a checkbox checked through the panel is unchecked by a
\* pointer-out event that follows, which also sets hovered to null and
\* leaves none of the six checkboxes checked; select-all and auto-rotate
\* keep their values.
C3_PointerOutUnchecksPanelChecked ==
    [][\A p \in SixParts :
         (last.op = "panel" /\ last.arg = p /\ config[p] /\ last'.op = "pointerOut")
             => /\ ~config'[p]
                /\ hovered' = null
                /\ NoneChecked(config')
                /\ config'["all"] = config["all"]
                /\ config'["autoRotate"] = config["autoRotate"]]_vars

\* C3 witness: before the pointer-out nothing was hovered (so no double
\* click had checked anything since the last pointer-out) and a part was
\* checked, through the panel; after it the part is unchecked.
C3_Witness ==
    /\ last.op = "pointerOut"
    /\ pre.hovered = null
    /\ \E p \in SixParts : pre.config[p] /\ ~config[p]

\* C4: if part p is hovered and its checkbox is set to false through the
\* panel, p is still highlighted: its Select group stays enabled and all
\* its meshes are highlighted.
C4_HoverOverridesUnchecked ==
    \A p \in SixParts :
        (last.op = "panel" /\ last.arg = p /\ pre.hovered = p /\ ~config[p])
            => /\ hovered = p
               /\ Enabled(tree, p)
               /\ \A m \in DocIndices(p) : Highlighted(tree, m)

\* C4 witness: the hovered part was checked, the panel unchecked it with
\* select-all off, and the part is still highlighted.
C4_Witness ==
    \E p \in SixParts :
        /\ last.op = "panel" /\ last.arg = p
        /\ pre.hovered = p /\ pre.config[p] /\ ~config[p]
        /\ ~config["all"]
        /\ DocIndices(p) \subseteq HighlightedSet

\* C5: the rendered part table maps each of the six part names to its
\* documented index set, the six sets are pairwise disjoint, and this is so
\* in every state, whatever events have been handled.
C5_PartTableFixed ==
    Mounted =>
        /\ {g.name : g \in Groups(tree)} = SixParts
        /\ \A p \in SixParts : GroupMeshes(p) = DocIndices(p)
        /\ \A p, q \in SixParts : p # q => GroupMeshes(p) \cap GroupMeshes(q) = {}

\* C5 witness: the table is the documented one after a double click, a
\* panel toggle and a pointer-out have been handled.
C5_Witness ==
    /\ Mounted /\ last.op = "pointerOut" /\ pre.hovered # null
    /\ \E p \in SixParts : pre.config[p] /\ pre.hovered # p
    /\ \A p \in SixParts : GroupMeshes(p) = DocIndices(p)

\* C6: the six index sets partition the mesh set: every mesh index 0..59
\* is in exactly one part's array, exactly once, and the union of the six
\* sets is 0..59 (60 meshes).
C6_PartitionOfMeshes ==
    Mounted =>
        /\ Meshes(tree) = AllMeshes
        /\ Cardinality(Meshes(tree)) = 60
        /\ \A m \in AllMeshes :
              Cardinality({i \in DOMAIN tree.children :
                              m \in Range(tree.children[i].meshes)}) = 1
        /\ \A i \in DOMAIN tree.children :
              Len(tree.children[i].meshes) = Cardinality(Range(tree.children[i].meshes))

\* C6 witness: the mounted tree holds the 60 meshes in six groups.
C6_Witness ==
    /\ Mounted /\ last.op = "doubleClick"
    /\ Cardinality(Groups(tree)) = 6
    /\ Meshes(tree) = AllMeshes

\* C7: pton with a part name that is none of the six applies the given
\* status to all six checkboxes and to nothing else; with status true every
\* mesh of the six index sets is then highlighted.
C7_UnrecognizedNameFallsBackToAll ==
    (last.op = "pton" /\ last.arg \notin SixParts) =>
        /\ \A p \in SixParts : config[p] = last.stat
        /\ config["all"] = pre.config["all"]
        /\ config["autoRotate"] = pre.config["autoRotate"]
        /\ hovered = pre.hovered
        /\ last.stat => (UNION {DocIndices(p) : p \in SixParts}) \subseteq HighlightedSet

\* C7 witness: pton("crank", true) called with nothing checked, nothing
\* hovered and select-all off: the six checkboxes are checked and the 60
\* meshes highlighted.
C7_Witness ==
    /\ last.op = "pton" /\ last.arg = Unrecognized /\ last.stat
    /\ NoneChecked(pre.config) /\ pre.hovered = null /\ ~config["all"]
    /\ \A p \in SixParts : config[p]
    /\ HighlightedSet = AllMeshes

\* C8: a double click on a mesh sets hovered to the name of the part that
\* owns the mesh and checks that part's checkbox, in the same handler.
C8_DoubleClickHoversAndChecks ==
    last.op = "doubleClick" =>
        /\ last.arg \in SixParts
        /\ hovered = last.arg
        /\ config[last.arg]

\* C8 witness: the double-clicked part was neither hovered nor checked
\* before the event and is both after it.
C8_Witness ==
    /\ last.op = "doubleClick"
    /\ pre.hovered \in SixParts /\ pre.hovered # last.arg
    /\ ~pre.config[last.arg]
    /\ hovered = last.arg /\ config[last.arg]

\* C9: a pointer-out event sets hovered to null and leaves the part that
\* was hovered unchecked.
C9_PointerOutClearsHoverAndUnchecks ==
    last.op = "pointerOut" =>
        /\ hovered = null
        /\ pre.hovered \in SixParts => ~config[pre.hovered]

\* C9 witness: a part was hovered and checked before the pointer-out and is
\* neither afterwards.
C9_Witness ==
    /\ last.op = "pointerOut"
    /\ pre.hovered \in SixParts /\ pre.config[pre.hovered]
    /\ hovered = null /\ ~config[pre.hovered]

\* C10: with no part checked and select-all off, a double click on a mesh
\* of part "shaft" sets hovered to "shaft" and exactly the meshes 29, 30,
\* 31, 32, 33 are then highlighted.
C10_ShaftScenario ==
    (/\ last.op = "doubleClick" /\ last.arg = "shaft"
     /\ NoneChecked(pre.config) /\ ~pre.config["all"])
        => /\ hovered = "shaft"
           /\ HighlightedSet = {29, 30, 31, 32, 33}

\* C10 witness: the scenario has happened, from a state where another part
\* was hovered.
C10_Witness ==
    /\ last.op = "doubleClick" /\ last.arg = "shaft"
    /\ NoneChecked(pre.config) /\ ~pre.config["all"] /\ pre.hovered = "gear"
    /\ hovered = "shaft"
    /\ HighlightedSet = {29, 30, 31, 32, 33}

\* The center of a box, as the specification defines the pivot.
BoxCenter(b) ==
    <<(b.min[1] + b.max[1]) \div 2, (b.min[2] + b.max[2]) \div 2,
      (b.min[3] + b.max[3]) \div 2>>

\* The assembly's box in the world, with the group at position pos.
WorldBox(b, pos) ==
    [min |-> <<b.min[1] + pos[1], b.min[2] + pos[2], b.min[3] + pos[3]>>,
     max |-> <<b.max[1] + pos[1], b.max[2] + pos[2], b.max[3] + pos[3]>>]

\* C11: when reset is invoked twice in succession, the group's position
\* after the second call equals its position after the first call.
C11_ResetTwiceKeepsPosition ==
    [][(last.op = "reset" /\ last'.op = "reset") => position' = position]_vars

\* C11 witness: reset has been handled right after another reset, for an
\* assembly whose center is not the origin, and the group is where the
\* first call put it.
C11_Witness ==
    /\ last.op = "reset" /\ last.arg = "reset"
    /\ position # Origin
    /\ position = <<-BoxCenter(bbox)[1], -BoxCenter(bbox)[2], -BoxCenter(bbox)[3]>>

\* C12: the first invocation of reset, with the group at the origin, sets
\* the group's position to the negation of the center of the assembly's
\* bounding box, so that the box's center is at the origin afterwards;
\* every invocation leaves the controls reset and the camera up-vector
\* (0,1,0).
C12_FirstResetCentersPivot ==
    last.op = "reset" =>
        /\ controls = "home"
        /\ cameraUp = <<0, 1, 0>>
        /\ last.stat =>
              /\ position = <<-BoxCenter(bbox)[1], -BoxCenter(bbox)[2],
                              -BoxCenter(bbox)[3]>>
              /\ BoxCenter(WorldBox(bbox, position)) = <<0, 0, 0>>

\* C12 witness: the first reset, handled right after the user moved the
\* view, for an assembly whose center is not the origin.
C12_Witness ==
    /\ last.op = "reset" /\ last.stat /\ last.arg = "orbit"
    /\ BoxCenter(bbox) # <<0, 0, 0>>
    /\ position = <<-BoxCenter(bbox)[1], -BoxCenter(bbox)[2], -BoxCenter(bbox)[3]>>
    /\ controls = "home" /\ cameraUp = <<0, 1, 0>>

\* C13: the Engine viewer exists only once the asset has loaded: while it
\* loads the Loading fallback is what is rendered and the viewer's state is
\* untouched, and no double click, pointer-out, panel or reset event is
\* handled before loading has completed.
C13_ViewerOnlyAfterLoading ==
    /\ phase = "loading" =>
          /\ tree.kind = "Loading"
          /\ last.op \notin {"doubleClick", "pointerOut", "panel", "reset"}
          /\ hovered = null /\ \A k \in DOMAIN config : ~config[k]
          /\ ~reset /\ position = <<0, 0, 0>>
    /\ last.op \in {"doubleClick", "pointerOut", "panel", "reset"} =>
          phase = "mounted" /\ tree.kind = "group"

\* C13 witness: loading has just completed; the viewer is rendered for the
\* first time, with its initial state.
C13_Witness ==
    /\ last.op = "load" /\ phase = "mounted" /\ tree.kind = "group"
    /\ hovered = null /\ \A k \in DOMAIN config : ~config[k]
    /\ ~reset

\* C14: after every render of the viewer, the bounding-box helper is drawn
\* (it has been created and added to the scene, and is visible) exactly
\* when the auto-rotate flag is checked.
C14_BoxHelperIffAutoRotate ==
    phase = "mounted" =>
        ((boxH.exists /\ boxH.visible /\ helpers >= 1) <=> config["autoRotate"])

\* C14 witness: auto-rotate has just been unchecked in the panel and the
\* helper created earlier is hidden.
C14_Witness ==
    /\ last.op = "panel" /\ last.arg = "autoRotate"
    /\ pre.config["autoRotate"] /\ ~config["autoRotate"]
    /\ boxH.exists /\ ~boxH.visible /\ helpers = 1

C16_GuardSetOnceRecenterOnce ==
    /\ ~reset
    /\ [](recenterings <= 1 /\ (reset <=> recenterings = 1))
    /\ [][(reset => reset') /\ (last'.op = "reset" => reset')]_vars

\* C16 witness: reset is invoked again, after a pointer or panel event that
\* followed an earlier invocation; the guard is set and the group has been
\* recentered once.
C16_Witness ==
    /\ last.op = "reset" /\ ~last.stat
    /\ last.arg \in {"doubleClick", "pointerOut", "panel"}
    /\ reset /\ recenterings = 1

\* C17: double click and pointer-out events never change the select-all
\* flag, the auto-rotate flag, the reset guard or the group's position;
\* the two flags change only by a toggle in the panel, the guard and the
\* position only by the reset button.
C17_PointerEventsLeavePanelFlagsAndPivot ==
    [][/\ last'.op \in {"doubleClick", "pointerOut"} =>
             /\ config'["all"] = config["all"]
             /\ config'["autoRotate"] = config["autoRotate"]
             /\ reset' = reset
             /\ position' = position
       /\ config'["all"] # config["all"] =>
             last'.op = "panel" /\ last'.arg = "all"
       /\ config'["autoRotate"] # config["autoRotate"] =>
             last'.op = "panel" /\ last'.arg = "autoRotate"
       /\ (reset' # reset \/ position' # position) => last'.op = "reset"]_vars

\* C17 witness: a pointer-out has been handled with a part hovered and
\* checked, select-all and auto-rotate on and the group recentered away
\* from the origin; all four still have those values.
C17_Witness ==
    /\ last.op = "pointerOut" /\ pre.hovered \in SixParts
    /\ pre.config["all"] /\ pre.config["autoRotate"]
    /\ config["all"] /\ config["autoRotate"]
    /\ reset /\ position # <<0, 0, 0>>

\* C18: the reset action changes only the group position, the guard and
\* the camera and controls: hovered, the six checked flags, select-all and
\* auto-rotate have the same values after it as before it, and the
\* rendered tree is the same.
C18_ResetLeavesSelectionState ==
    /\ last.op = "reset" => hovered = pre.hovered /\ config = pre.config
    /\ [][last'.op = "reset" =>
             /\ hovered' = hovered /\ config' = config
             /\ tree' = tree /\ autoRotate' = autoRotate]_vars

\* C18 witness: the first reset, which moved the group, has been handled
\* with a part hovered, another checked, and select-all and auto-rotate on.
C18_Witness ==
    /\ last.op = "reset" /\ last.stat /\ position # <<0, 0, 0>>
    /\ hovered \in SixParts /\ hovered = pre.hovered
    /\ \E q \in SixParts : q # hovered /\ config[q]
    /\ config["all"] /\ config["autoRotate"] /\ config = pre.config

\* C19: a pointer-out event always ends with hovered = null and the six
\* part checkboxes unchecked, whatever the state before it; with select-all
\* off, no mesh is highlighted right after it.
C19_PointerOutClearsEverything ==
    last.op = "pointerOut" =>
        /\ hovered = null
        /\ \A p \in SixParts : ~config[p]
        /\ ~config["all"] => HighlightedSet = {}

\* C19 witness: before the pointer-out a part was hovered, all six were
\* checked and select-all was off; after it nothing is highlighted.
C19_Witness ==
    /\ last.op = "pointerOut"
    /\ pre.hovered \in SixParts /\ \A p \in SixParts : pre.config[p]
    /\ ~config["all"]
    /\ hovered = null /\ NoneChecked(config) /\ HighlightedSet = {}

\* C20: a double click on a mesh of a recognized part p changes only
\* hovered and the checkbox of p: the checkboxes of the other five parts,
\* select-all and auto-rotate keep the values they had before the event.
C20_DoubleClickLeavesOtherCheckboxes ==
    (last.op = "doubleClick" /\ last.arg \in SixParts) =>
        \A k \in DOMAIN config : k # last.arg => config[k] = pre.config[k]

\* C20 witness: the double-clicked part was unchecked before the event;
\* of the others, one was checked and one unchecked, and both still are.
C20_Witness ==
    /\ last.op = "doubleClick" /\ ~pre.config[last.arg] /\ config[last.arg]
    /\ \E q, r \in SixParts \ {last.arg} :
          /\ pre.config[q] /\ config[q]
          /\ ~pre.config[r] /\ ~config[r]

\* C21: in every state reached from the initial state by double clicks and
\* pointer-outs only (the panel is never toggled), hovered is null if and
\* only if all six part checkboxes are unchecked.
C21_HoveredNoneIffNoneChecked ==
    (hovered = null) <=> NoneChecked(config)

\* C21 witness: a pointer-out has been handled in a state with a part
\* hovered and two or more parts checked; after it hovered is null and
\* none of the six is checked.
C21_Witness ==
    /\ last.op = "pointerOut"
    /\ pre.hovered \in SixParts /\ pre.config[pre.hovered]
    /\ \E q \in SixParts \ {pre.hovered} : pre.config[q]
    /\ hovered = null /\ NoneChecked(config)

\* C22: a double click checks and never toggles. A double click on part p
\* handled when p is already hovered and checked leaves the whole state of
\* the viewer unchanged, so a double click on p that directly follows a
\* double click on p changes nothing: two in a row act as one.
C22_DoubleClickIdempotent ==
    [][(/\ last'.op = "doubleClick"
        /\ \/ hovered = last'.arg /\ config[last'.arg]
           \/ last.op = "doubleClick" /\ last.arg = last'.arg)
       => /\ hovered' = hovered /\ config' = config
          /\ tree' = tree /\ boxH' = boxH /\ helpers' = helpers
          /\ autoRotate' = autoRotate
          /\ UNCHANGED <<phase, reset, position, bbox, controls, cameraUp,
                         recenterings, other>>]_vars

\* C22 witness: a double click on a part has been handled that was hovered
\* and checked before it, next to another checked part, and the part is
\* still hovered and checked and the panel values are the same.
C22_Witness ==
    /\ last.op = "doubleClick" /\ last.arg \in SixParts
    /\ pre.hovered = last.arg /\ pre.config[last.arg]
    /\ \E q \in SixParts \ {last.arg} : pre.config[q]
    /\ hovered = last.arg /\ config = pre.config

\* C23: across any sequence of auto-rotate toggles and re-renders, at most
\* one bounding-box helper is created and added to the scene. It is created
\* lazily, at the first render with auto-rotate checked, and from then on
\* the same object is kept and only shown or hidden.
C23_AtMostOneBoxHelper ==
    /\ [](/\ helpers <= 1
          /\ boxH.exists <=> helpers = 1
          /\ (Mounted /\ config["autoRotate"]) => boxH.exists)
    /\ [][/\ helpers' # helpers =>
                /\ ~boxH.exists /\ helpers' = helpers + 1
                /\ config'["autoRotate"] /\ boxH'.exists /\ boxH'.visible
          /\ boxH.exists => boxH'.exists /\ helpers' = helpers]_vars

\* C23 witness: with the helper created earlier, auto-rotate has been
\* checked again after a time unchecked, and the render that followed
\* shows the helper instead of adding a second one.
C23_Witness ==
    /\ last.op = "panel" /\ last.arg = "autoRotate" /\ last.stat
    /\ ~pre.config["autoRotate"] /\ config["autoRotate"]
    /\ boxH.exists /\ boxH.visible /\ helpers = 1
    /\ reset /\ hovered \in SixParts

====
